---- MODULE Spec2Model ----
(***************************************************************************)
(* Bio-Formats bridge of pims-plugin-format-bioformats:                    *)
(*   utils/engine.py  ask_bioformats, cached_bioformats_metadata,          *)
(*                    BioFormatsParser, BioFormatsSpatialConvertor         *)
(* Times are in milliseconds, lengths in bytes.                            *)
(***************************************************************************)
EXTENDS Integers, Sequences, FiniteSets, TLC

VARIABLES
    call,       \* per caller: the frame of its ask_bioformats call
    conn,       \* per caller: the bridge's end of the call's connection
    fmt,        \* per format object: its parser's position and counters
    objCache,   \* per format object: the entry '_bioformats_md' of its cache
    dataCache,  \* per resolved path: the entry of the cache of _bioformats_metadata
    conv,       \* per convertor: the frame of its convert call
    fs,         \* the files of the filesystem, by path
    settings    \* the configuration read at import (get_settings())

askVars == <<call, conn>>
cacheVars == <<fmt, objCache, dataCache>>
convVars == <<conv, fs>>
vars == <<call, conn, fmt, objCache, dataCache, conv, fs, settings>>

-----------------------------------------------------------------------------
\* Program constants

BufferSize == 4096
DefaultRequestTimeout == 1000
DefaultResponseTimeout == 15000
ShortPollTimeout == 500
bioformats_metadata_timeout == 15000
bioformats_conversion_timeout == 200 * 60 * 1000

\* Settings(): the defaults, and the values a configuration file may set
DefaultSettings ==
    [bioformats_metadata_timeout |-> bioformats_metadata_timeout,
     bioformats_conversion_timeout |-> bioformats_conversion_timeout]
ConfiguredSettings ==
    {DefaultSettings,
     [bioformats_metadata_timeout |-> 30 * 1000,
      bioformats_conversion_timeout |-> 10 * 60 * 1000]}

\* Bounds of the model

\* the bridge's responses are at most MaxBlocks * BufferSize + 1 bytes long
MaxBlocks == 2
\* each format object runs at most MaxPhases parsing phases
MaxPhases == 3
\* a metadata document has at most MaxChannels channels
MaxChannels == 3

-----------------------------------------------------------------------------
\* Callers: one thread each

Clients == {"client"}
Parsers == {"f1", "f2"}
Convertors == {"c1", "c2"}
Procs == Clients \cup Parsers \cup Convertors

-----------------------------------------------------------------------------
\* JSON documents (Python dicts) are functions from keys to values

\* (markers, not documents: no response, a text that is not JSON, Python's
\* None, and the failure of json.loads)
NoDoc == "<no document>" :> TRUE
Garbage == "<not JSON>" :> TRUE
None == "<None>" :> TRUE
JSONDecodeError == "<JSONDecodeError>" :> TRUE
EmptyDoc == [k \in {} |-> ""]
ErrorDoc == [error |-> [message |-> "service error"]]
ErrorFileDoc(output) == [error |-> [message |-> "service error"], file |-> output]
FileDoc(output) == [file |-> output]
PropsDoc(path) == [path |-> path, SizeX |-> 672, SizeY |-> 512]

IsDoc(d) == d \notin {NoDoc, Garbage, None, JSONDecodeError}
HasKey(d, k) == IsDoc(d) /\ k \in DOMAIN d

\* The text of a response on the wire: `size` bytes, the last `ws` of them
\* whitespace after the JSON value; when mbAt > 0 the bytes mbAt and mbAt + 1
\* are one two-byte UTF-8 character.
NoText == [doc |-> NoDoc, size |-> 0, ws |-> 0, mbAt |-> 0]
EmptyResponse == [text |-> NoText, len |-> 0]

TextSizes ==
    {2} \cup { s \in { k * BufferSize + d : k \in 1..MaxBlocks, d \in {-1, 0, 1} } : s > 2 }

\* json.loads(response): a proper prefix of the JSON value does not parse, and
\* whitespace after the value is ignored
json_loads(response) ==
    IF response.len = 0 THEN JSONDecodeError
    ELSE IF ~IsDoc(response.text.doc) THEN JSONDecodeError
    ELSE IF response.len < response.text.size - response.text.ws THEN JSONDecodeError
    ELSE response.text.doc

\* data.decode('utf-8') of the n bytes that follow the first `len` bytes of the text
DecodeFails(text, len, n) ==
    text.mbAt > 0 /\ (len + n = text.mbAt \/ len = text.mbAt)

-----------------------------------------------------------------------------
\* ask_bioformats

NoMessage == [action |-> "none"]
NoOutcome == [kind |-> "none"]
Return(v) == [kind |-> "return", value |-> v]
Raise(exc, v) == [kind |-> "raise", exc |-> exc, value |-> v]

IdleCall ==
    [pc |-> "idle", message |-> NoMessage, request_timeout |-> 0,
     response_timeout |-> 0, silent_fail |-> FALSE, sock |-> "none",
     closed |-> FALSE, timeout |-> 0, response |-> EmptyResponse,
     polls |-> <<>>, reads |-> <<>>, parsed |-> NoDoc, failure |-> "none",
     connects |-> 0, sends |-> 0, outcome |-> NoOutcome]

IdleConn == [text |-> NoText, sent |-> 0, avail |-> 0, eof |-> FALSE]

\* lines 52-62: the frame of a new call, its socket created
NewCall(message, request_timeout, response_timeout, silent_fail) ==
    [IdleCall EXCEPT !.pc = "connect", !.message = message,
                     !.request_timeout = request_timeout,
                     !.response_timeout = response_timeout,
                     !.silent_fail = silent_fail, !.sock = "open"]

\* lines 93-99 and the exit of the with block: the socket is closed; an
\* InterruptedError is logged and raised again, a TimeoutError is logged and
\* the function falls off its end, anything else propagates
ExceptClauses(exc) ==
    IF exc = "InterruptedError" THEN Raise("InterruptedError", None)
    ELSE IF exc = "TimeoutError" THEN Return(None)
    ELSE Raise(exc, None)

FailedReconnecting(c, exc) == [c EXCEPT !.pc = "connect", !.failure = exc]

FailedLeavingOpen(c, exc) ==
    [c EXCEPT !.pc = "done", !.failure = exc, !.outcome = ExceptClauses(exc)]

Failed(c, exc) ==
    [c EXCEPT !.pc = "done", !.sock = "closed", !.failure = exc,
              !.outcome = ExceptClauses(exc)]

\* what a timed-out socket operation raises: socket.timeout, which is the
\* built-in TimeoutError from Python 3.10 on and only an OSError before; the
\* kernel's ETIMEDOUT is TimeoutError on every version
TimeoutExceptions == {"socket.timeout", "TimeoutError"}
ConnectEvents == {"ok", "ConnectionRefusedError"} \cup TimeoutExceptions
SendEvents == {"ok", "ConnectionResetError"} \cup TimeoutExceptions
PollEvents == {"ready", "timeout", "socket_error"}
RecvEvents == {"data", "ConnectionResetError"}

\* lines 63-64: settimeout, connect
AskConnect(p, ev) ==
    /\ call[p].pc = "connect"
    /\ ev \in ConnectEvents
    /\ call' = [call EXCEPT ![p] =
                  IF ev = "ok"
                  THEN [@ EXCEPT !.pc = "send", !.connects = @ + 1]
                  ELSE Failed([@ EXCEPT !.connects = @ + 1], ev)]
    /\ conn' = [conn EXCEPT ![p] = IdleConn]
    /\ UNCHANGED <<cacheVars, convVars, settings>>

\* lines 65-67: sendall, closed = False, _response_timeout = response_timeout
Sent(c) ==
    [c EXCEPT !.pc = "poll", !.sends = @ + 1, !.closed = FALSE,
              !.timeout = c.response_timeout]

AskSend(p, ev) ==
    /\ call[p].pc = "send"
    /\ ev \in SendEvents
    /\ call' = [call EXCEPT ![p] =
                  IF ev = "ok" THEN Sent(@)
                  ELSE Failed([@ EXCEPT !.sends = @ + 1], ev)]
    /\ UNCHANGED <<cacheVars, convVars>>
    /\ UNCHANGED <<conn, settings>>

PollReadyKeepingTimeout(c) ==
    [c EXCEPT !.pc = "recv", !.polls = Append(@, c.timeout)]

\* lines 69-75 and 78-79: _data_available(), then _response_timeout = 0.5
PollReady(c) ==
    [c EXCEPT !.pc = "recv", !.polls = Append(@, c.timeout),
              !.timeout = ShortPollTimeout]

PollEmptyPollsAgain(c) ==
    [c EXCEPT !.pc = "poll",
              !.timeout = IF @ = ShortPollTimeout THEN c.response_timeout
                          ELSE ShortPollTimeout]

\* lines 73-75 and 78: select times out, _data_available() is False and the
\* loop ends
PollEmpty(c) == [c EXCEPT !.pc = "decode", !.polls = Append(@, c.timeout)]

AskPoll(p, ev) ==
    /\ call[p].pc = "poll"
    /\ ev \in PollEvents
    /\ \/ /\ call[p].closed
          /\ ev = "timeout"
          /\ call' = [call EXCEPT ![p].pc = "decode"]
       \/ /\ ~call[p].closed
          /\ ev = "ready"
          /\ conn[p].avail > 0 \/ conn[p].eof
          /\ call' = [call EXCEPT ![p] = PollReady(@)]
       \/ /\ ~call[p].closed
          /\ ev = "timeout"
          /\ conn[p].avail = 0 /\ ~conn[p].eof
          /\ call' = [call EXCEPT ![p] = PollEmpty(@)]
       \/ /\ ~call[p].closed
          /\ ev = "socket_error"
          /\ call' = [call EXCEPT ![p] =
                        Failed([@ EXCEPT !.polls = Append(@, call[p].timeout)],
                               "InterruptedError")]
    /\ UNCHANGED <<conn, cacheVars, convVars, settings>>

EndsLoopOnEmptyReadOnly(n) == n = 0

\* line 84: the read that ends the loop
EndsLoop(n) == n = 0 \/ n < BufferSize

\* lines 80-86: recv, the accumulation, the end of the loop
Received(c, text, n) ==
    LET c1 == [c EXCEPT !.reads = Append(@, n)]
        c2 == IF n > 0
              THEN [c1 EXCEPT !.response = [text |-> text, len |-> @.len + n]]
              ELSE c1
    IN  IF n > 0 /\ DecodeFails(text, c.response.len, n)
        THEN Failed(c1, "UnicodeDecodeError")
        ELSE IF EndsLoop(n)
        THEN [c2 EXCEPT !.closed = TRUE, !.pc = "decode"]
        ELSE [c2 EXCEPT !.pc = "poll"]

Min(a, b) == IF a < b THEN a ELSE b

AskRecv(p, ev) ==
    /\ call[p].pc = "recv"
    /\ ev \in RecvEvents
    /\ \/ /\ ev = "data"
          /\ LET n == Min(conn[p].avail, BufferSize)
             IN  /\ call' = [call EXCEPT ![p] = Received(@, conn[p].text, n)]
                 /\ conn' = [conn EXCEPT ![p].avail = @ - n]
       \/ /\ ev = "ConnectionResetError"
          /\ call' = [call EXCEPT ![p] = Failed(@, ev)]
          /\ UNCHANGED conn
    /\ UNCHANGED <<cacheVars, convVars, settings>>

ErrorCheckNeverRaises(parsed, silent_fail) == Return(parsed)

ErrorCheckIgnoresSilentFail(parsed, silent_fail) ==
    IF HasKey(parsed, "error")
    THEN Raise("ValueError", parsed["error"])
    ELSE Return(parsed)

\* lines 89-92: the error check and the return
ErrorCheck(parsed, silent_fail) ==
    IF ~silent_fail /\ HasKey(parsed, "error")
    THEN Raise("ValueError", parsed["error"])
    ELSE Return(parsed)

\* lines 88-92, and the exit of the with block
Decoded(c) ==
    LET parsed == json_loads(c.response)
    IN  IF parsed = JSONDecodeError
        THEN [c EXCEPT !.pc = "done", !.sock = "closed",
                       !.outcome = Raise("JSONDecodeError", None)]
        ELSE [c EXCEPT !.pc = "done", !.sock = "closed", !.parsed = parsed,
                       !.outcome = ErrorCheck(parsed, c.silent_fail)]

AskDecode(p) ==
    /\ call[p].pc = "decode"
    /\ call' = [call EXCEPT ![p] = Decoded(@)]
    /\ UNCHANGED <<conn, cacheVars, convVars, settings>>

AskStep(p) ==
    \/ \E ev \in ConnectEvents : AskConnect(p, ev)
    \/ \E ev \in SendEvents : AskSend(p, ev)
    \/ \E ev \in PollEvents : AskPoll(p, ev)
    \/ \E ev \in RecvEvents : AskRecv(p, ev)
    \/ AskDecode(p)

-----------------------------------------------------------------------------
\* Paths and files

SourcePaths == {"/data/a.czi", "/data/b.czi"}
FormatPaths == SourcePaths \cup {"/data/link.czi"}

\* format.path.resolve(): /data/link.czi is a symbolic link to /data/a.czi
Resolve(path) == IF path = "/data/link.czi" THEN "/data/a.czi" ELSE path

\* os.path.split and os.path.join on a path held as its head and its tail
os_path_split(path) == <<path.head, path.tail>>
os_path_join(head, tail) == [head |-> head, tail |-> tail]

DestPaths ==
    {os_path_join("/out/u1", "a.tif"), os_path_join("/out/u1", "b.tif"),
     os_path_join("/out/u2", "b.tif")}

IntermediateName == "intermediate.tmp"
FsPaths == DestPaths \cup { os_path_join(d.head, IntermediateName) : d \in DestPaths }

NoFile == [kind |-> "none"]
FlatFile(source) == [kind |-> "flat", of |-> source]
TiledFile(source, pyramid, subifd) ==
    [kind |-> "tiled", of |-> source, pyramid |-> pyramid, subifd |-> subifd]

-----------------------------------------------------------------------------
\* The bridge and the network

\* the request has been written and the call is waiting for the response
Waiting(p) == call[p].pc \in {"poll", "recv"}

\* the documents the bridge may answer a message with
Answers(message) ==
    IF message.action = "convert"
    THEN {FileDoc(message.output), ErrorDoc, ErrorFileDoc(message.output),
          EmptyDoc, Garbage}
    ELSE IF message.action = "properties"
    THEN {PropsDoc(message.path), ErrorDoc, EmptyDoc, Garbage}
    ELSE {}

Texts(docs, sizes, wss, mbs) ==
    { t \in [doc : docs, size : sizes, ws : wss, mbAt : mbs] :
        /\ t.size - t.ws >= 2
        /\ t.mbAt > 0 => t.mbAt + 1 <= t.size - t.ws }

\* the bridge has produced its response; a conversion that reports a file
\* has written it at the requested output path
BridgeRespond(p, text) ==
    /\ Waiting(p)
    /\ conn[p].text = NoText
    /\ ~conn[p].eof
    /\ conn' = [conn EXCEPT ![p].text = text]
    /\ fs' = IF call[p].message.action = "convert" /\ HasKey(text.doc, "file")
             THEN [fs EXCEPT ![call[p].message.output] =
                                 FlatFile(call[p].message.path)]
             ELSE fs
    /\ UNCHANGED <<call, cacheVars, conv, settings>>

\* k more bytes of the response reach the caller's socket
Deliver(p, k) ==
    /\ Waiting(p)
    /\ conn[p].text # NoText
    /\ ~conn[p].eof
    /\ k >= 1
    /\ conn[p].sent + k <= conn[p].text.size
    /\ conn' = [conn EXCEPT ![p].sent = @ + k, ![p].avail = @ + k]
    /\ UNCHANGED <<call, cacheVars, convVars, settings>>

\* the bridge closes its end
PeerClose(p) ==
    /\ Waiting(p)
    /\ ~conn[p].eof
    /\ conn' = [conn EXCEPT ![p].eof = TRUE]
    /\ UNCHANGED <<call, cacheVars, convVars, settings>>

Remaining(p) == conn[p].text.size - conn[p].sent
\* the network delivers the rest of the text, one buffer's worth of it, or,
\* at a buffer boundary of the text, a single byte
ChunkSizes(p) ==
    {BufferSize, Remaining(p)} \cup (IF conn[p].sent % BufferSize = 0 THEN {1} ELSE {})

\* the bridge answers with a short text and the network delivers it whole
SmallTexts(message) == Texts(Answers(message), {2}, {0}, {0})

-----------------------------------------------------------------------------
\* A client that calls ask_bioformats directly

PropertiesMessage(path, raw) ==
    [action |-> "properties", includeRawProperties |-> raw,
     legacyMode |-> FALSE, path |-> path]

ClientCall(p, message, response_timeout, silent_fail) ==
    /\ call[p].pc \in {"idle", "done"}
    /\ call' = [call EXCEPT ![p] =
                  NewCall(message, DefaultRequestTimeout, response_timeout, silent_fail)]
    /\ conn' = [conn EXCEPT ![p] = IdleConn]
    /\ UNCHANGED <<cacheVars, convVars, settings>>

-----------------------------------------------------------------------------
\* cached_bioformats_metadata, as the parsing phases of a format call it

Phases == {"parse_main_metadata", "parse_known_metadata", "parse_pyramid", "parse_planes"}

IdleParser(path) ==
    [pc |-> "idle", path |-> path, runs |-> 0, remote |-> 0,
     raised |-> 0, returned |-> 0, hits |-> 0, last |-> "none",
     phase |-> "none", raws |-> 0, raw_metadata |-> NoDoc, store |-> NoOutcome,
     imd |-> [ph \in {"parse_main_metadata", "parse_known_metadata"} |-> NoOutcome],
     prev |-> [ph \in {"parse_main_metadata", "parse_known_metadata"} |-> NoOutcome]]

NotMemoized(entry, value) == entry
MemoizedEmpty(entry, value) == EmptyDoc

\* format.get_cached and cache_data: the entry once the function has returned
\* `value` (any value, None included)
Memoized(entry, value) == value

\* lines 102-114: _bioformats_metadata
MetadataCall(path) ==
    NewCall(PropertiesMessage(path, FALSE), DefaultRequestTimeout,
            settings.bioformats_metadata_timeout, FALSE)

\* lines 117-120, an entry present: the phase is answered from the format's
\* cache, or from the cache of _bioformats_metadata under the resolved path
LookupCached(f, phase) ==
    LET key == Resolve(fmt[f].path)
        value == IF objCache[f] # NoDoc THEN objCache[f] ELSE dataCache[key]
    IN  /\ fmt[f].pc = "idle"
        /\ fmt[f].runs < MaxPhases
        /\ value # NoDoc
        /\ objCache' = [objCache EXCEPT ![f] = value]
        /\ fmt' = [fmt EXCEPT ![f].runs = @ + 1, ![f].hits = @ + 1,
                              ![f].last = "hit"]
        /\ UNCHANGED <<askVars, dataCache, convVars, settings>>

\* lines 117-120, no entry: _bioformats_metadata runs for the resolved path
LookupMiss(f, phase) ==
    LET key == Resolve(fmt[f].path)
    IN  /\ fmt[f].pc = "idle"
        /\ fmt[f].runs < MaxPhases
        /\ objCache[f] = NoDoc
        /\ dataCache[key] = NoDoc
        /\ call' = [call EXCEPT ![f] = MetadataCall(key)]
        /\ conn' = [conn EXCEPT ![f] = IdleConn]
        /\ fmt' = [fmt EXCEPT ![f].pc = "lookup", ![f].runs = @ + 1,
                              ![f].remote = @ + 1, ![f].last = "none"]
        /\ UNCHANGED <<objCache, dataCache, convVars, settings>>

\* lines 117-120, the remote call has ended: a returned value is memoized at
\* both levels, a raised error goes to the phase and nothing is stored
LookupDone(f) ==
    LET key == Resolve(fmt[f].path)
        out == call[f].outcome
    IN  /\ fmt[f].pc = "lookup"
        /\ call[f].pc = "done"
        /\ IF out.kind = "return"
           THEN /\ objCache' = [objCache EXCEPT ![f] = Memoized(@, out.value)]
                /\ dataCache' = [dataCache EXCEPT ![key] = Memoized(@, out.value)]
                /\ fmt' = [fmt EXCEPT ![f].pc = "idle", ![f].returned = @ + 1,
                                      ![f].last = "return"]
           ELSE /\ UNCHANGED <<objCache, dataCache>>
                /\ fmt' = [fmt EXCEPT ![f].pc = "idle", ![f].raised = @ + 1,
                                      ![f].last = "raise"]
        /\ call' = [call EXCEPT ![f] = IdleCall]
        /\ conn' = [conn EXCEPT ![f] = IdleConn]
        /\ UNCHANGED <<convVars, settings>>

-----------------------------------------------------------------------------
\* BioFormatsParser: the mapping of the metadata document

\* values of a document: numbers and strings (an absent or null value is None)
Num(n) == [num |-> n]
Str(s) == [str |-> s]

\* dict.get(key, default)
Get(d, key, default) == IF key \in DOMAIN d THEN d[key] ELSE default

IsRaise(x) == "kind" \in DOMAIN x /\ x.kind = "raise"

\* pims.utils.types.parse_float: float(value), None when it cannot be done
NumericStrings == ("-1" :> -1) @@ ("0" :> 0) @@ ("2" :> 2)
parse_float(value) ==
    IF "num" \in DOMAIN value THEN value
    ELSE IF "str" \in DOMAIN value /\ value.str \in DOMAIN NumericStrings
    THEN Num(NumericStrings[value.str])
    ELSE None

\* pims.utils.UNIT_REGISTRY(unit): the units it defines, an error otherwise
KnownUnits == {"micrometer", "nm", "s"}
Quantity(magnitude, unit) ==
    IF "str" \in DOMAIN unit /\ unit.str \in KnownUnits
    THEN [magnitude |-> magnitude, units |-> unit.str]
    ELSE Raise("UndefinedUnitError", None)

parse_physical_size_nonnegative(physical_size, unit) ==
    IF physical_size # None /\ unit # None
    THEN LET value == parse_float(physical_size)
         IN  IF value # None /\ value.num >= 0
             THEN Quantity(value.num, unit)
             ELSE None
    ELSE None

\* lines 223-231
parse_physical_size(physical_size, unit) ==
    IF physical_size # None /\ unit # None
    THEN LET value == parse_float(physical_size)
         IN  IF value # None /\ value.num > 0
             THEN Quantity(value.num, unit)
             ELSE None
    ELSE None

DifferingSamplesPerPixel == "<Differing SamplesPerPixel not supported>" :> TRUE

DiffersNever(own, spp, i) == FALSE
\* lines 142-144: channel i (counted from 1 here) is not the first and its
\* samples per pixel are not those of the first
Differs(own, spp, i) == i > 1 /\ own # spp

\* lines 141-171: the loop over the channels, from channel i on, with spp as
\* set by channel 0 and the channels mapped so far
RECURSIVE ChannelLoop(_, _, _, _, _)
ChannelLoop(channels, i, spp, legacy_spp, mapped) ==
    IF i > Len(channels) THEN [spp |-> spp, channels |-> mapped]
    ELSE LET channel_md == channels[i]
             own == Get(channel_md, "SamplesPerPixel", legacy_spp)
             emission == parse_physical_size(
                             Get(channel_md, "EmissionWavelength", None),
                             Get(channel_md, "EmissionWavelengthUnit", None))
             excitation == parse_physical_size(
                             Get(channel_md, "ExcitationWavelength", None),
                             Get(channel_md, "ExcitationWavelengthUnit", None))
         IN  IF Differs(own, spp, i)
             THEN Raise("ValueError", DifferingSamplesPerPixel)
             ELSE IF IsRaise(emission) THEN emission
             ELSE IF IsRaise(excitation) THEN excitation
             ELSE ChannelLoop(channels, i + 1, IF i = 1 THEN own ELSE spp,
                      legacy_spp,
                      Append(mapped,
                             [index |-> i - 1,
                              emission_wavelength |-> emission,
                              excitation_wavelength |-> excitation,
                              suggested_name |-> Get(channel_md, "SuggestedName", None)]))

\* lines 125-174, the metadata at hand: the ImageMetadata returned, or the
\* error raised
parse_main_metadata(metadata) ==
    IF ~IsDoc(metadata) THEN Raise("AttributeError", None)
    ELSE IF Get(metadata, "Bioformats.Pixels.PixelType", None) = None
    THEN Raise("AttributeError", None)
    ELSE IF "Bioformats.Channels" \notin DOMAIN metadata
    THEN Raise("TypeError", None)
    ELSE LET legacy_spp == Get(metadata, "Bioformats.Pixels.SamplesPerPixel", Num(1))
             loop == ChannelLoop(metadata["Bioformats.Channels"], 1, Num(1),
                                 legacy_spp, <<>>)
         IN  IF IsRaise(loop) THEN loop
             ELSE Return(
                   [pixel_type |-> metadata["Bioformats.Pixels.PixelType"],
                    width |-> Get(metadata, "Bioformats.Pixels.SizeX", None),
                    height |-> Get(metadata, "Bioformats.Pixels.SizeY", None),
                    n_concrete_channels |->
                        Get(metadata, "Bioformats.Pixels.EffectiveSizeC", None),
                    channels |-> loop.channels,
                    n_samples |-> loop.spp])

\* lines 213-214: the associated images and their keys
Associated == <<"Macro", "Thumb", "Label">>
SeriesKey(associated) ==
    CASE associated = "Macro" -> "Bioformats.Series.Macro"
      [] associated = "Thumb" -> "Bioformats.Series.Thumb"
      [] associated = "Label" -> "Bioformats.Series.Label"

\* an associated image of ImageMetadata that nothing has populated
EmptyAssociated == [width |-> None, height |-> None, n_channels |-> None]

\* line 215: `if associated in metadata`
Present(metadata, associated) == associated \in DOMAIN metadata

\* lines 216-219, for one associated image: the KeyError of metadata[key], or
\* the image populated from it
AssociatedImage(metadata, associated) ==
    IF ~Present(metadata, associated) THEN EmptyAssociated
    ELSE IF SeriesKey(associated) \notin DOMAIN metadata
    THEN Raise("KeyError", Str(SeriesKey(associated)))
    ELSE [width |-> Get(metadata[SeriesKey(associated)], "Width", None),
          height |-> Get(metadata[SeriesKey(associated)], "Height", None),
          n_channels |-> Get(metadata[SeriesKey(associated)], "Channels", None)]

\* the first error among the values, in the order of evaluation
FirstRaise(values) ==
    IF \E i \in DOMAIN values : IsRaise(values[i])
    THEN values[CHOOSE i \in DOMAIN values :
                    /\ IsRaise(values[i])
                    /\ \A j \in DOMAIN values : IsRaise(values[j]) => i <= j]
    ELSE None

\* lines 177-221, the metadata at hand: the ImageMetadata returned, or the
\* error raised
parse_known_metadata(metadata) ==
    IF ~IsDoc(metadata) THEN Raise("AttributeError", None)
    ELSE LET size(value, unit) ==
                 parse_physical_size(Get(metadata, value, None),
                                     Get(metadata, unit, None))
             physical_size_x == size("Bioformats.Pixels.PhysicalSizeX",
                                     "Bioformats.Pixels.PhysicalSizeXUnit")
             physical_size_y == size("Bioformats.Pixels.PhysicalSizeY",
                                     "Bioformats.Pixels.PhysicalSizeYUnit")
             physical_size_z == size("Bioformats.Pixels.PhysicalSizeZ",
                                     "Bioformats.Pixels.PhysicalSizeZUnit")
             frame_rate == size("Bioformats.Pixels.TimeIncrement",
                                "Bioformats.Pixels.TimeIncrementUnit")
             images == [i \in 1..3 |-> AssociatedImage(metadata, Associated[i])]
             failure == FirstRaise(<<physical_size_x, physical_size_y,
                                     physical_size_z, frame_rate>> \o images)
         IN  IF failure # None THEN failure
             ELSE Return(
                   [acquisition_datetime |->
                        Get(metadata, "Bioformats.Image.AcquisitionDate", None),
                    description |-> Get(metadata, "Bioformats.Image.Description", None),
                    physical_size_x |-> physical_size_x,
                    physical_size_y |-> physical_size_y,
                    physical_size_z |-> physical_size_z,
                    frame_rate |-> frame_rate,
                    nominal_magnification |->
                        parse_float(Get(metadata,
                            "Bioformats.Objective.NominalMagnification", None)),
                    calibrated_magnification |->
                        parse_float(Get(metadata,
                            "Bioformats.Objective.CalibratedMagnification", None)),
                    microscope_model |-> Get(metadata, "Bioformats.Microscope.Model", None),
                    associated_macro |-> images[1],
                    associated_thumb |-> images[2],
                    associated_label |-> images[3],
                    is_complete |-> TRUE])

\* the documents the bridge answers a `properties` request with, as far as
\* the mapping reads them
Channel(spp) == IF spp = 0 THEN EmptyDoc ELSE ("SamplesPerPixel" :> Num(spp))
MainFields(channels, legacy_spp) ==
    ("Bioformats.Pixels.PixelType" :> Str("uint8"))
    @@ ("Bioformats.Pixels.SizeX" :> Num(672))
    @@ ("Bioformats.Pixels.SizeY" :> Num(512))
    @@ ("Bioformats.Pixels.EffectiveSizeC" :> Num(Len(channels)))
    @@ ("Bioformats.Channels" :> [i \in DOMAIN channels |-> Channel(channels[i])])
    @@ (IF legacy_spp = 0 THEN EmptyDoc
        ELSE ("Bioformats.Pixels.SamplesPerPixel" :> Num(legacy_spp)))

\* samples per pixel: absent (0), 1 or 3
SppValues == {0, 1, 3}
ChannelLists == UNION { [1..n -> SppValues] : n \in 0..MaxChannels }
MainDocs == { MainFields(channels, legacy) : channels \in ChannelLists, legacy \in SppValues }

PhysicalSizes ==
    {None, Num(-1), Num(0), Num(2), Str("-1"), Str("0"), Str("2"), Str("n/a")}
Units == {None, Str("micrometer"), Str("furlong")}
Field(key, value) == IF value = None THEN EmptyDoc ELSE (key :> value)
PhysicalDocs ==
    { MainFields(<<1>>, 0)
      @@ Field("Bioformats.Pixels.PhysicalSizeX", size)
      @@ Field("Bioformats.Pixels.PhysicalSizeXUnit", unit)
      @@ Field("Bioformats.Pixels.TimeIncrement", Num(0))
      @@ Field("Bioformats.Pixels.TimeIncrementUnit", Str("s"))
      : size \in PhysicalSizes, unit \in Units }

SeriesImage == ("Width" :> Num(64)) @@ ("Height" :> Num(48)) @@ ("Channels" :> Num(3))
Keyed(keys, value) == [k \in keys |-> value]
AssociatedDocs ==
    { MainFields(<<1>>, 0)
      @@ Keyed({SeriesKey(a) : a \in series}, SeriesImage)
      @@ Keyed(bare, Str("raw property"))
      : series \in SUBSET {"Macro", "Thumb", "Label"},
        bare \in SUBSET {"Macro", "Thumb", "Label"} }

MapperDocs == MainDocs \cup PhysicalDocs \cup AssociatedDocs

\* the phases whose mapping is modelled, and the mapping of each
MapPhases == {"parse_main_metadata", "parse_known_metadata"}
Mapping(phase, metadata) ==
    IF phase = "parse_main_metadata" THEN parse_main_metadata(metadata)
    ELSE parse_known_metadata(metadata)

\* the phase of parser fm has got its metadata and has mapped it
Mapped(fm, phase, metadata) ==
    [fm EXCEPT !.prev[phase] = fm.imd[phase],
               !.imd[phase] = Mapping(phase, metadata)]

\* a phase, an entry present (lines 117-120, then the mapping)
ParseCached(f, phase) ==
    LET key == Resolve(fmt[f].path)
        value == IF objCache[f] # NoDoc THEN objCache[f] ELSE dataCache[key]
    IN  /\ fmt[f].pc = "idle"
        /\ fmt[f].runs < MaxPhases
        /\ value # NoDoc
        /\ objCache' = [objCache EXCEPT ![f] = value]
        /\ fmt' = [fmt EXCEPT ![f] =
                     Mapped([@ EXCEPT !.runs = @ + 1, !.hits = @ + 1, !.last = "hit"],
                            phase, value)]
        /\ UNCHANGED <<askVars, dataCache, convVars, settings>>

\* a phase, no entry: _bioformats_metadata runs for the resolved path
ParseMiss(f, phase) ==
    LET key == Resolve(fmt[f].path)
    IN  /\ fmt[f].pc = "idle"
        /\ fmt[f].runs < MaxPhases
        /\ objCache[f] = NoDoc
        /\ dataCache[key] = NoDoc
        /\ call' = [call EXCEPT ![f] = MetadataCall(key)]
        /\ conn' = [conn EXCEPT ![f] = IdleConn]
        /\ fmt' = [fmt EXCEPT ![f].pc = "lookup", ![f].runs = @ + 1,
                              ![f].remote = @ + 1, ![f].last = "none",
                              ![f].phase = phase]
        /\ UNCHANGED <<objCache, dataCache, convVars, settings>>

\* the remote call of the phase has ended: a returned value is memoized and
\* mapped, a raised error leaves the phase
ParseDone(f) ==
    LET key == Resolve(fmt[f].path)
        out == call[f].outcome
    IN  /\ fmt[f].pc = "lookup"
        /\ call[f].pc = "done"
        /\ IF out.kind = "return"
           THEN /\ objCache' = [objCache EXCEPT ![f] = Memoized(@, out.value)]
                /\ dataCache' = [dataCache EXCEPT ![key] = Memoized(@, out.value)]
                /\ fmt' = [fmt EXCEPT ![f] =
                             Mapped([@ EXCEPT !.pc = "idle", !.returned = @ + 1,
                                              !.last = "return", !.phase = "none"],
                                    fmt[f].phase, out.value)]
           ELSE /\ UNCHANGED <<objCache, dataCache>>
                /\ fmt' = [fmt EXCEPT ![f].pc = "idle", ![f].raised = @ + 1,
                                      ![f].last = "raise", ![f].phase = "none"]
        /\ call' = [call EXCEPT ![f] = IdleCall]
        /\ conn' = [conn EXCEPT ![f] = IdleConn]
        /\ UNCHANGED <<convVars, settings>>

\* The keys of the documents of the model and the prefixes they are tested
\* for, as the sequences of the pieces they are made of
KeyTokens ==
    [k \in {"Bioformats.Pixels.PixelType", "Bioformats.Pixels.SizeX",
            "Bioformats.Pixels.SizeY", "Bioformats.Pixels.EffectiveSizeC",
            "Bioformats.Pixels.SamplesPerPixel", "Bioformats.Pixels.PhysicalSizeX",
            "Bioformats.Pixels.PhysicalSizeXUnit", "Bioformats.Pixels.TimeIncrement",
            "Bioformats.Pixels.TimeIncrementUnit"} |-> <<"Bioformats", ".Pixels", k>>]
    @@ [k \in {"Bioformats.Series.Macro", "Bioformats.Series.Thumb",
               "Bioformats.Series.Label"} |-> <<"Bioformats", ".Series", k>>]
    @@ [k \in {"Bioformats"} |-> <<"Bioformats">>]
    @@ [k \in {"Bioformats.Pyramid"} |-> <<"Bioformats", ".Pyramid">>]
    @@ [k \in {"Bioformats.Planes"} |-> <<"Bioformats", ".Planes">>]
    @@ [k \in {"Bioformats.Channels"} |-> <<"Bioformats", ".Channels">>]
    @@ [k \in {"Bioformats.Planes.0.TheZ"} |-> <<"Bioformats", ".Planes", k>>]

\* a key that has no entry is made of one piece
Tokens(s) == IF s \in DOMAIN KeyTokens THEN KeyTokens[s] ELSE <<s>>

startswithNever(key, prefix) == FALSE

\* key.startswith(prefix)
startswith(key, prefix) ==
    LET k == Tokens(key)
        q == Tokens(prefix)
    IN  Len(q) <= Len(k) /\ SubSeq(k, 1, Len(q)) = q

\* raw_metadata.items(): the keys of the dict in its order
RECURSIVE items(_)
items(keys) ==
    IF keys = {} THEN <<>>
    ELSE LET k == CHOOSE x \in keys : TRUE
         IN  <<k>> \o items(keys \ {k})

FormatIdentifier == "format identifier"
DefaultNamespace == "default"

\* lines 276-287: the loop over the items, as the calls of store.set it makes
RECURSIVE StoreLoop(_, _)
StoreLoop(raw_metadata, keys) ==
    IF keys = <<>> THEN <<>>
    ELSE LET key == Head(keys)
             rest == StoreLoop(raw_metadata, Tail(keys))
         IN  IF \/ startswith(key, "Bioformats.Pyramid")
                \/ startswith(key, "Bioformats.Planes")
                \/ startswith(key, "Bioformats.Channels")
             THEN rest
             ELSE IF ~startswith(key, "Bioformats")
             THEN <<[key |-> key, value |-> raw_metadata[key],
                     namespace |-> FormatIdentifier]>> \o rest
             ELSE <<[key |-> key, value |-> raw_metadata[key],
                     namespace |-> DefaultNamespace]>> \o rest

\* lines 275-289: the store built from the items of the raw metadata, or the
\* error of None.items()
parse_raw_metadata(raw_metadata) ==
    IF ~IsDoc(raw_metadata) THEN Raise("AttributeError", None)
    ELSE Return(StoreLoop(raw_metadata, items(DOMAIN raw_metadata)))

RawMessageWithoutRaw(path) == PropertiesMessage(path, FALSE)
\* lines 267-272
RawMessage(path) == PropertiesMessage(path, TRUE)

\* lines 267-273: parse_raw_metadata asks the bridge, with the timeouts that
\* ask_bioformats has by default
ParseRaw(f) ==
    /\ fmt[f].pc = "idle"
    /\ fmt[f].runs < MaxPhases
    /\ call' = [call EXCEPT ![f] =
                  NewCall(RawMessage(fmt[f].path), DefaultRequestTimeout,
                          DefaultResponseTimeout, FALSE)]
    /\ conn' = [conn EXCEPT ![f] = IdleConn]
    /\ fmt' = [fmt EXCEPT ![f].pc = "raw", ![f].runs = @ + 1, ![f].raws = @ + 1]
    /\ UNCHANGED <<objCache, dataCache, convVars, settings>>

\* lines 273-289: the call has ended; its error leaves the phase, its value
\* is stored key by key
ParseRawDone(f) ==
    /\ fmt[f].pc = "raw"
    /\ call[f].pc = "done"
    /\ fmt' = [fmt EXCEPT ![f].pc = "idle",
                          ![f].raw_metadata = IF call[f].outcome.kind = "raise"
                                              THEN NoDoc
                                              ELSE call[f].outcome.value,
                          ![f].store = IF call[f].outcome.kind = "raise"
                                       THEN call[f].outcome
                                       ELSE parse_raw_metadata(call[f].outcome.value)]
    /\ call' = [call EXCEPT ![f] = IdleCall]
    /\ conn' = [conn EXCEPT ![f] = IdleConn]
    /\ UNCHANGED <<objCache, dataCache, convVars, settings>>

-----------------------------------------------------------------------------
\* BioFormatsSpatialConvertor

TILE_SIZE == 256

\* more source images, by their sizes (those of the test files among them)
Image(path, width, height) == [path |-> path, width |-> width, height |-> height]
Images ==
    {Image("/data/100x100.nd2", 100, 100), Image("/data/164x156.nd2", 164, 156),
     Image("/data/4096x200.czi", 4096, 200), Image("/data/256x4096.czi", 256, 4096),
     Image("/data/4096x3072.czi", 4096, 3072), Image("/data/256x256.czi", 256, 256),
     Image("/data/257x256.czi", 257, 256), Image("/data/257x257.czi", 257, 257),
     Image("/data/255x257.czi", 255, 257)}
ImagePaths == { img.path : img \in Images } \cup {"/data/a.czi"}

\* self.source.main_imd
MainImd(source) ==
    IF source = "/data/a.czi"
    THEN [width |-> 672, height |-> 512, n_planes |-> 1]
    ELSE IF \E img \in Images : img.path = source
    THEN LET img == CHOOSE img \in Images : img.path = source
         IN  [width |-> img.width, height |-> img.height, n_planes |-> 1]
    ELSE [width |-> 100, height |-> 100, n_planes |-> 2]

\* lines 307-309
need_pyramid_strict(imd) == ~(imd.width < TILE_SIZE \/ imd.height < TILE_SIZE)
need_pyramid(imd) == ~(imd.width <= TILE_SIZE \/ imd.height <= TILE_SIZE)

conversion_format_pyramidal(imd) == "PyrOmeTiffFormat"
\* lines 367-373
conversion_format(imd) ==
    IF ~need_pyramid(imd) THEN "OmeTiffFormat" ELSE "PyrOmeTiffFormat"

\* line 313
intermediate_path(dest_path) ==
    os_path_join(os_path_split(dest_path)[1], IntermediateName)

ConvertMessageAllSeries(source, output) ==
    [action |-> "convert", legacyMode |-> FALSE, path |-> source,
     output |-> output, onlyBiggestSerie |-> FALSE, flatten |-> FALSE,
     compression |-> "LZW", keepOriginalMetadata |-> FALSE, group |-> TRUE,
     nPyramidResolutions |-> 1, pyramidScaleFactor |-> 1,
     tileSize |-> TILE_SIZE, applyLUTs |-> FALSE]

\* lines 315-329
ConvertMessage(source, output) ==
    [action |-> "convert", legacyMode |-> FALSE, path |-> source,
     output |-> output, onlyBiggestSerie |-> TRUE, flatten |-> TRUE,
     compression |-> "LZW", keepOriginalMetadata |-> FALSE, group |-> TRUE,
     nPyramidResolutions |-> 1, pyramidScaleFactor |-> 1,
     tileSize |-> TILE_SIZE, applyLUTs |-> FALSE]

NoPath == os_path_join("", "")
ConversionFailed == "<BioFormats conversion failed.>" :> TRUE

IdleConvert ==
    [pc |-> "idle", source |-> "none", dest |-> NoPath, inter |-> NoPath,
     result |-> NoDoc, flattened |-> FALSE, ops |-> {}, opened |-> NoFile,
     tiffsave |-> "none", ok |-> FALSE, fixup |-> "none", strip |-> {},
     format |-> "none", request |-> NoMessage, openedAt |-> NoPath,
     unlinkedAt |-> NoPath, outcome |-> NoOutcome]

\* lines 311-334: the intermediate path, the message, the remote call
ConvertStart(c, source, dest_path) ==
    /\ conv[c].pc = "idle"
    /\ conv' = [conv EXCEPT ![c] =
                  [IdleConvert EXCEPT !.pc = "ask", !.source = source,
                                      !.format = conv[c].format,
                                      !.dest = dest_path,
                                      !.inter = intermediate_path(dest_path),
                                      !.request =
                                          ConvertMessage(source,
                                              intermediate_path(dest_path))]]
    /\ call' = [call EXCEPT ![c] =
                  NewCall(ConvertMessage(source, intermediate_path(dest_path)),
                          DefaultRequestTimeout,
                          settings.bioformats_conversion_timeout, TRUE)]
    /\ conn' = [conn EXCEPT ![c] = IdleConn]
    /\ UNCHANGED <<cacheVars, fs, settings>>

CheckedWithoutOkTest(cv, out) ==
    IF out.kind = "raise"
    THEN [cv EXCEPT !.pc = "done", !.outcome = out]
    ELSE IF out.value = None
    THEN [cv EXCEPT !.pc = "done", !.result = None,
                    !.outcome = Raise("TypeError", None)]
    ELSE [cv EXCEPT !.pc = "open", !.result = out.value, !.flattened = TRUE]

\* lines 330-337: an error of the call propagates; `'file' in result` fails
\* on None; a result without `file` raises the conversion failure
Checked(cv, out) ==
    IF out.kind = "raise"
    THEN [cv EXCEPT !.pc = "done", !.outcome = out]
    ELSE IF out.value = None
    THEN [cv EXCEPT !.pc = "done", !.result = None,
                    !.outcome = Raise("TypeError", None)]
    ELSE IF ~HasKey(out.value, "file")
    THEN [cv EXCEPT !.pc = "done", !.result = out.value,
                    !.outcome = Raise("ValueError", ConversionFailed)]
    ELSE [cv EXCEPT !.pc = "open", !.result = out.value, !.flattened = TRUE]

ConvertCheck(c) ==
    /\ conv[c].pc = "ask"
    /\ call[c].pc = "done"
    /\ conv' = [conv EXCEPT ![c] = Checked(@, call[c].outcome)]
    /\ call' = [call EXCEPT ![c] = IdleCall]
    /\ conn' = [conn EXCEPT ![c] = IdleConn]
    /\ UNCHANGED <<cacheVars, fs, settings>>

\* lines 339-340: VIPSImage.new_from_file, which raises when the file is
\* missing or cannot be read
ConvertOpen(c, ev) ==
    /\ conv[c].pc = "open"
    /\ \/ /\ ev = "ok"
          /\ fs[conv[c].inter] # NoFile
          /\ conv' = [conv EXCEPT ![c].pc = "save", ![c].ops = @ \cup {"open"},
                                  ![c].openedAt = conv[c].inter,
                                  ![c].opened = fs[conv[c].inter]]
       \/ /\ ev = "error"
          /\ conv' = [conv EXCEPT ![c].pc = "done", ![c].ops = @ \cup {"open"},
                                  ![c].openedAt = conv[c].inter,
                                  ![c].outcome = Raise("pyvips.Error", None)]
    /\ UNCHANGED <<askVars, cacheVars, fs, settings>>

\* lines 342-354: tiffsave reads the pages through the opened image (the file
\* as it was opened, or as it is now at the path) and writes the destination;
\* it returns None, or a true value, or raises
ConvertSave(c, ev) ==
    /\ conv[c].pc = "save"
    /\ \/ /\ ev = "ok"
          /\ \E page \in {conv[c].opened} \cup ({fs[conv[c].inter]} \ {NoFile}) :
                fs' = [fs EXCEPT ![conv[c].dest] =
                         TiledFile(page.of, need_pyramid(MainImd(conv[c].source)),
                                   need_pyramid(MainImd(conv[c].source)))]
          /\ conv' = [conv EXCEPT ![c].pc = "unlink", ![c].ops = @ \cup {"write"},
                                  ![c].tiffsave = "None"]
       \/ /\ ev = "failed"
          /\ conv' = [conv EXCEPT ![c].pc = "unlink", ![c].ops = @ \cup {"write"},
                                  ![c].tiffsave = "true value"]
          /\ UNCHANGED fs
       \/ /\ ev = "error"
          /\ conv' = [conv EXCEPT ![c].pc = "done", ![c].ops = @ \cup {"write"},
                                  ![c].outcome = Raise("pyvips.Error", None)]
          /\ UNCHANGED fs
    /\ UNCHANGED <<askVars, cacheVars, settings>>

\* lines 355-356 and 360, 365: unlink raises when the file is missing;
\* ok = not bool(result), and a conversion that is not ok returns False
Unlinked(cv, exists) ==
    IF ~exists
    THEN [cv EXCEPT !.pc = "done", !.ops = @ \cup {"unlink"},
                    !.outcome = Raise("FileNotFoundError", None)]
    ELSE IF cv.tiffsave = "None"
    THEN [cv EXCEPT !.pc = "fixup", !.ops = @ \cup {"unlink"}, !.ok = TRUE]
    ELSE [cv EXCEPT !.pc = "done", !.ops = @ \cup {"unlink"}, !.ok = FALSE,
                    !.outcome = Return(FALSE)]

ConvertUnlink(c) ==
    /\ conv[c].pc = "unlink"
    /\ conv' = [conv EXCEPT ![c] =
                  Unlinked([@ EXCEPT !.unlinkedAt = conv[c].inter],
                           fs[conv[c].inter] # NoFile)]
    /\ fs' = [fs EXCEPT ![conv[c].inter] = NoFile]
    /\ UNCHANGED <<askVars, cacheVars, settings>>

\* remove_tiff_comments(dest_path, n_pages, except_pages): the pages whose
\* comment it is asked to strip
remove_tiff_comments(n_pages, except_pages) == (0 .. n_pages - 1) \ except_pages

FixedUpEscalating(cv, ev) ==
    IF ev = "error"
    THEN [cv EXCEPT !.pc = "done", !.ops = @ \cup {"comments"}, !.fixup = ev,
                    !.strip = remove_tiff_comments(MainImd(cv.source).n_planes, {0}),
                    !.outcome = Raise("Exception", None)]
    ELSE [cv EXCEPT !.pc = "done", !.ops = @ \cup {"comments"}, !.fixup = ev,
                    !.strip = remove_tiff_comments(MainImd(cv.source).n_planes, {0}),
                    !.outcome = Return(cv.ok)]

\* lines 360-365: remove_tiff_comments for every page but page 0, whatever it
\* raises passed over, then return ok
FixedUp(cv, ev) ==
    [cv EXCEPT !.pc = "done", !.ops = @ \cup {"comments"}, !.fixup = ev,
               !.strip = remove_tiff_comments(MainImd(cv.source).n_planes, {0}),
               !.outcome = Return(cv.ok)]

ConvertFixup(c, ev) ==
    /\ conv[c].pc = "fixup"
    /\ ev \in {"ok", "error"}
    /\ conv' = [conv EXCEPT ![c] = FixedUp(@, ev)]
    /\ UNCHANGED <<askVars, cacheVars, fs, settings>>

\* a convert call of c is under way
Converting(c) == conv[c].pc \notin {"idle", "done"}

\* lines 367-373: conversion_format, which the import asks of a convertor
\* once, before or after the conversion
ConversionFormat(c) ==
    /\ conv[c].source # "none"
    /\ conv[c].format = "none"
    /\ conv' = [conv EXCEPT ![c].format = conversion_format(MainImd(conv[c].source))]
    /\ UNCHANGED <<askVars, cacheVars, fs, settings>>

-----------------------------------------------------------------------------
\* Specifications

InitAsk ==
    /\ call = [p \in Procs |-> IdleCall]
    /\ conn = [p \in Procs |-> IdleConn]
    /\ fmt = [f \in Parsers |-> IdleParser("/data/a.czi")]
    /\ objCache = [f \in Parsers |-> NoDoc]
    /\ dataCache = [path \in SourcePaths |-> NoDoc]
    /\ conv = [c \in Convertors |-> IdleConvert]
    /\ fs = [path \in FsPaths |-> NoFile]
    /\ settings = DefaultSettings

\* a client calling ask_bioformats, the bridge and the network
NextAsk ==
    \/ \E p \in Clients, raw \in BOOLEAN, silent \in BOOLEAN,
          rt \in {bioformats_metadata_timeout, bioformats_conversion_timeout} :
          ClientCall(p, PropertiesMessage("/data/a.czi", raw), rt, silent)
    \/ \E p \in Clients : AskStep(p)
    \/ \E p \in Clients :
          \E t \in Texts(Answers(call[p].message), TextSizes, {0, 1}, {0, BufferSize}) :
             BridgeRespond(p, t)
    \/ \E p \in Clients : \E k \in ChunkSizes(p) : Deliver(p, k)
    \/ \E p \in Clients : PeerClose(p)

SpecAsk == InitAsk /\ [][NextAsk]_vars

\* the thread that runs ask_bioformats goes on running: connect and sendall
\* return or raise within request_timeout (line 63), select within its
\* timeout (line 73), and recv is only called on a readable socket
SpecAskLive ==
    InitAsk /\ [][NextAsk]_vars /\ WF_vars(\E p \in Clients : AskStep(p))

\* f1 is the format of /data/a.czi; f2 is a format of the same file, reached
\* through a link, or the format of another file
InitParser ==
    /\ call = [p \in Procs |-> IdleCall]
    /\ conn = [p \in Procs |-> IdleConn]
    /\ \E path \in {"/data/link.czi", "/data/b.czi"} :
          fmt = [f \in Parsers |->
                   IdleParser(IF f = "f1" THEN "/data/a.czi" ELSE path)]
    /\ objCache = [f \in Parsers |-> NoDoc]
    /\ dataCache = [path \in SourcePaths |-> NoDoc]
    /\ conv = [c \in Convertors |-> IdleConvert]
    /\ fs = [path \in FsPaths |-> NoFile]
    /\ settings = DefaultSettings

\* the parsing phases of two formats, each format in its own thread
NextParser ==
    \/ \E f \in Parsers, phase \in Phases : LookupCached(f, phase)
    \/ \E f \in Parsers, phase \in Phases : LookupMiss(f, phase)
    \/ \E f \in Parsers : LookupDone(f)
    \/ \E f \in Parsers : AskStep(f)
    \/ \E f \in Parsers : \E t \in SmallTexts(call[f].message) : BridgeRespond(f, t)
    \/ \E f \in Parsers : Deliver(f, Remaining(f))
    \/ \E f \in Parsers : PeerClose(f)

SpecParser == InitParser /\ [][NextParser]_vars

\* the conversion of c1 and the conversions c2 may be asked for
SourceOf(c) == IF c = "c1" THEN "/data/a.czi" ELSE "/data/b.czi"
DestsOf(c) ==
    IF c = "c1" THEN {os_path_join("/out/u1", "a.tif")}
    ELSE {os_path_join("/out/u1", "b.tif"), os_path_join("/out/u2", "b.tif")}

\* two conversions of different source files, each in its own thread
NextConvert ==
    \/ \E c \in Convertors : \E dest \in DestsOf(c) :
          ConvertStart(c, SourceOf(c), dest)
    \/ \E c \in Convertors : ConvertCheck(c)
    \/ \E c \in Convertors, ev \in {"ok", "error"} : ConvertOpen(c, ev)
    \/ \E c \in Convertors, ev \in {"ok", "failed", "error"} : ConvertSave(c, ev)
    \/ \E c \in Convertors : ConvertUnlink(c)
    \/ \E c \in Convertors, ev \in {"ok", "error"} : ConvertFixup(c, ev)
    \/ \E c \in Convertors : AskStep(c)
    \/ \E c \in Convertors : \E t \in SmallTexts(call[c].message) : BridgeRespond(c, t)
    \/ \E c \in Convertors : Deliver(c, Remaining(c))
    \/ \E c \in Convertors : PeerClose(c)

SpecConvert == InitAsk /\ [][NextConvert]_vars

\* one convertor for a source image of any of the sizes
InitPyramid ==
    /\ call = [p \in Procs |-> IdleCall]
    /\ conn = [p \in Procs |-> IdleConn]
    /\ fmt = [f \in Parsers |-> IdleParser("/data/a.czi")]
    /\ objCache = [f \in Parsers |-> NoDoc]
    /\ dataCache = [path \in SourcePaths |-> NoDoc]
    /\ \E source \in ImagePaths :
          conv = [c \in Convertors |->
                    IF c = "c1" THEN [IdleConvert EXCEPT !.source = source]
                    ELSE IdleConvert]
    /\ fs = [path \in FsPaths |-> NoFile]
    /\ settings = DefaultSettings

NextPyramid ==
    \/ ConvertStart("c1", conv["c1"].source, os_path_join("/out/u1", "a.tif"))
    \/ ConversionFormat("c1")
    \/ ConvertCheck("c1")
    \/ \E ev \in {"ok", "error"} : ConvertOpen("c1", ev)
    \/ \E ev \in {"ok", "failed", "error"} : ConvertSave("c1", ev)
    \/ ConvertUnlink("c1")
    \/ \E ev \in {"ok", "error"} : ConvertFixup("c1", ev)
    \/ AskStep("c1")
    \/ \E t \in SmallTexts(call["c1"].message) : BridgeRespond("c1", t)
    \/ Deliver("c1", Remaining("c1"))
    \/ PeerClose("c1")

SpecPyramid == InitPyramid /\ [][NextPyramid]_vars

\* Two formats of one file, f1 by its path and f2 through a link. A phase of
\* f1 has fetched the document of the file, which the cache of
\* _bioformats_metadata still holds or has evicted; f2 is new.
InitMapper ==
    /\ call = [p \in Procs |-> IdleCall]
    /\ conn = [p \in Procs |-> IdleConn]
    /\ fmt = [f \in Parsers |->
                IF f = "f1"
                THEN [IdleParser("/data/a.czi") EXCEPT !.runs = 1, !.remote = 1,
                                                      !.returned = 1, !.last = "return"]
                ELSE IdleParser("/data/link.czi")]
    /\ \E doc \in MapperDocs, evicted \in BOOLEAN :
          /\ objCache = [f \in Parsers |-> IF f = "f1" THEN doc ELSE NoDoc]
          /\ dataCache = [path \in SourcePaths |->
                            IF path = "/data/a.czi" /\ ~evicted THEN doc ELSE NoDoc]
    /\ conv = [c \in Convertors |-> IdleConvert]
    /\ fs = [path \in FsPaths |-> NoFile]
    /\ settings = DefaultSettings

\* the phases of the two formats; the bridge answers a new request for the
\* file with the document it answered before
NextMapper ==
    \/ \E f \in Parsers, phase \in MapPhases : ParseCached(f, phase)
    \/ \E f \in Parsers, phase \in MapPhases : ParseMiss(f, phase)
    \/ \E f \in Parsers : ParseDone(f)
    \/ \E f \in Parsers : AskStep(f)
    \/ \E f \in Parsers : \E t \in Texts({objCache["f1"]}, {2}, {0}, {0}) :
          BridgeRespond(f, t)
    \/ \E f \in Parsers : Deliver(f, Remaining(f))
    \/ \E f \in Parsers : PeerClose(f)

SpecMapper == InitMapper /\ [][NextMapper]_vars

\* an import under any configuration: one thread that asks for the phases and
\* the raw metadata of a format and for a conversion, one after the other
InitOperations ==
    /\ call = [p \in Procs |-> IdleCall]
    /\ conn = [p \in Procs |-> IdleConn]
    /\ fmt = [f \in Parsers |-> IdleParser("/data/a.czi")]
    /\ objCache = [f \in Parsers |-> NoDoc]
    /\ dataCache = [path \in SourcePaths |-> NoDoc]
    /\ conv = [c \in Convertors |-> IdleConvert]
    /\ fs = [path \in FsPaths |-> NoFile]
    /\ settings \in ConfiguredSettings

NextOperations ==
    \/ \E phase \in Phases : ~Converting("c1") /\ LookupCached("f1", phase)
    \/ \E phase \in Phases : ~Converting("c1") /\ LookupMiss("f1", phase)
    \/ LookupDone("f1")
    \/ ~Converting("c1") /\ ParseRaw("f1")
    \/ ParseRawDone("f1")
    \/ /\ fmt["f1"].pc = "idle"
       /\ ConvertStart("c1", "/data/a.czi", os_path_join("/out/u1", "a.tif"))
    \/ ConvertCheck("c1")
    \/ \E ev \in {"ok", "error"} : ConvertOpen("c1", ev)
    \/ \E ev \in {"ok", "failed", "error"} : ConvertSave("c1", ev)
    \/ ConvertUnlink("c1")
    \/ \E ev \in {"ok", "error"} : ConvertFixup("c1", ev)
    \/ \E p \in {"f1", "c1"} : AskStep(p)
    \/ \E p \in {"f1", "c1"} : \E t \in SmallTexts(call[p].message) : BridgeRespond(p, t)
    \/ \E p \in {"f1", "c1"} : Deliver(p, Remaining(p))
    \/ \E p \in {"f1", "c1"} : PeerClose(p)

SpecOperations == InitOperations /\ [][NextOperations]_vars

\* The keys of a response with raw properties: the pyramid, the planes and
\* the channels, a key below the planes, two more keys of the bridge and two
\* keys of the file's own metadata
RawKeys ==
    {"Bioformats.Pyramid", "Bioformats.Planes", "Bioformats.Channels",
     "Bioformats.Planes.0.TheZ", "Bioformats.Pixels.SizeX",
     "Bioformats.Series.Macro", "Information|Image|SizeX", "Channels"}

\* responses with none, one, all but one or all of the keys
RawDocs ==
    { [k \in K |-> Str(k)] :
        K \in { K \in SUBSET RawKeys :
                  Cardinality(K) <= 1 \/ Cardinality(K) >= Cardinality(RawKeys) - 1 } }

\* parse_raw_metadata of one format, the bridge and the network
NextRaw ==
    \/ ParseRaw("f1")
    \/ ParseRawDone("f1")
    \/ AskStep("f1")
    \/ \E t \in Texts(RawDocs \cup {ErrorDoc, Garbage}, {2}, {0}, {0}) :
          BridgeRespond("f1", t)
    \/ Deliver("f1", Remaining("f1"))
    \/ PeerClose("f1")

SpecRaw == InitAsk /\ [][NextRaw]_vars

-----------------------------------------------------------------------------
\* Properties of ask_bioformats

\* the call of p has ended after its read loop ended, without a transport failure
Answered(p) == call[p].pc = "done" /\ call[p].failure = "none"

\* C1: when the response read parses as JSON and has a top-level `error` key
\* and silent_fail is false, the call raises the operation error carrying the
\* service's error payload, and returns nothing.
C1_ErrorRaisedWhenNotSilent ==
    \A p \in Procs :
        (/\ Answered(p)
         /\ ~call[p].silent_fail
         /\ HasKey(json_loads(call[p].response), "error"))
        => call[p].outcome =
              Raise("ValueError", json_loads(call[p].response)["error"])

C1_Witness ==
    \E p \in Procs :
        /\ Answered(p)
        /\ ~call[p].silent_fail
        /\ HasKey(call[p].parsed, "error")
        /\ call[p].outcome.kind = "raise"

\* C2: when the response read parses as JSON and has a top-level `error` key
\* and silent_fail is true, the call returns the parsed response unchanged,
\* the error key included, and does not raise.
C2_ErrorReturnedWhenSilent ==
    \A p \in Procs :
        (/\ Answered(p)
         /\ call[p].silent_fail
         /\ HasKey(json_loads(call[p].response), "error"))
        => /\ call[p].outcome = Return(call[p].response.text.doc)
           /\ HasKey(call[p].outcome.value, "error")

C2_Witness ==
    \E p \in Procs :
        /\ Answered(p)
        /\ call[p].silent_fail
        /\ HasKey(call[p].parsed, "error")
        /\ call[p].outcome.kind = "return"

TransportFailures ==
    {"ConnectionRefusedError", "ConnectionResetError", "InterruptedError"}
        \cup TimeoutExceptions

\* C3: a call in which a transport failure happened (connect or send timeout,
\* connection refused or reset, poll error) ends by raising, whatever
\* silent_fail is; it never completes normally.
C3_TransportFailureRaises ==
    \A p \in Procs :
        (call[p].pc = "done" /\ call[p].failure \in TransportFailures)
        => call[p].outcome.kind = "raise"

\* the poll of p's call timed out before any byte of response was read
NoResponseInTime(p) ==
    /\ Answered(p)
    /\ call[p].reads = <<>>
    /\ call[p].polls # <<>>

\* C4: a metadata call whose request was written and that received no byte
\* within the idle timeout ends by raising the timeout error.
C4_NoResponseRaisesTimeout ==
    \A p \in Procs :
        (NoResponseInTime(p) /\ call[p].message.action = "properties")
        => (call[p].outcome.kind = "raise"
            /\ call[p].outcome.exc \in TimeoutExceptions)

\* C5: whenever the bridge is sending a response and has not closed the
\* connection, the text handed to the JSON decoder is the complete response,
\* never a proper prefix of it.
C5_DecoderGetsCompleteResponse ==
    \A p \in Procs :
        (/\ call[p].pc = "decode"
         /\ call[p].response.len > 0
         /\ ~conn[p].eof)
        => call[p].response.len = call[p].response.text.size

Last(s) == s[Len(s)]

\* the last read of p's call returned a chunk shorter than the buffer
ShortChunkRead(p) ==
    /\ call[p].reads # <<>>
    /\ Last(call[p].reads) > 0
    /\ Last(call[p].reads) < BufferSize

\* C6: once a read has returned a chunk shorter than the buffer, the read loop
\* is over: no poll follows that read, so none waits an idle timeout after it.
C6_ShortReadEndsLoop ==
    \A p \in Procs :
        ShortChunkRead(p)
        => /\ call[p].pc \in {"decode", "done"}
           /\ Len(call[p].polls) = Len(call[p].reads)
           /\ call[p].closed \/ call[p].failure # "none"

C6_Witness ==
    \E p \in Procs :
        /\ ShortChunkRead(p)
        /\ Len(call[p].reads) > 1
        /\ call[p].pc = "decode"

-----------------------------------------------------------------------------
\* Properties of the metadata cache

\* C7 (as claimed): the phases of one format issue at most one remote
\* `properties` call.
C7_AtMostOneRemoteCall == \A f \in Parsers : fmt[f].remote <= 1

\* C7 (amended): the phases of one format issue at most one remote
\* `properties` call that returns; every further remote call follows one that
\* raised, and once a call has returned no phase of the format calls again.
C7_AtMostOneReturningCall ==
    \A f \in Parsers :
        /\ fmt[f].returned <= 1
        /\ fmt[f].remote <= fmt[f].raised + 1
        /\ fmt[f].returned = 1 => (objCache[f] # NoDoc /\ fmt[f].pc = "idle")
        /\ fmt[f].hits > 0 => objCache[f] # NoDoc

C7_Witness ==
    \E f \in Parsers :
        /\ fmt[f].raised >= 1
        /\ fmt[f].returned = 1
        /\ fmt[f].hits >= 1

-----------------------------------------------------------------------------
\* Properties of convert

\* C8: two conversions under way for different source files whose
\* destinations lie in the same directory never use the same intermediate path.
C8_DistinctIntermediatePaths ==
    \A c, d \in Convertors :
        (/\ c # d
         /\ Converting(c) /\ Converting(d)
         /\ conv[c].source # conv[d].source
         /\ os_path_split(conv[c].dest)[1] = os_path_split(conv[d].dest)[1])
        => conv[c].inter # conv[d].inter

\* the remote convert call of c returned a response that has no `file` key
NoFileKey(c) == IsDoc(conv[c].result) /\ ~HasKey(conv[c].result, "file")

\* C9: when the response to the convert request has no `file` key, convert
\* ends by raising the conversion failure, and has performed no filesystem
\* operation: no open, no write, no unlink.
C9_NoFileKeyRaisesBeforeFilesystem ==
    \A c \in Convertors :
        NoFileKey(c)
        => /\ conv[c].pc = "done"
           /\ conv[c].outcome.kind = "raise"
           /\ conv[c].outcome.exc = "ValueError"
           /\ conv[c].outcome.value = ConversionFailed
           /\ conv[c].ops = {}

C9_Witness ==
    \E c \in Convertors :
        /\ conv[c].result = ErrorDoc
        /\ conv[c].pc = "done"
        /\ conv[c].outcome.kind = "raise"

\* C10: once the remote flatten step has succeeded, no exit of convert leaves
\* the intermediate file in place.
C10_IntermediateDeletedOnEveryExit ==
    \A c \in Convertors :
        (conv[c].pc = "done" /\ conv[c].flattened)
        => fs[conv[c].inter] = NoFile

\* C11: a convert whose deletion of the intermediate file fails (the file is
\* no longer there) does not raise because of it: it ends by returning the
\* outcome of the re-tile step.
C11_UnlinkFailureSwallowed ==
    \A c \in Convertors :
        (conv[c].pc = "done" /\ "unlink" \in conv[c].ops)
        => conv[c].outcome.kind = "return"

\* C12: the comment fix-up runs only after a re-tile that succeeded, asks to
\* strip the comment of every page but page 0, and convert returns success
\* whether the fix-up raised or not.
C12_FixupAfterSuccessSwallowed ==
    \A c \in Convertors :
        /\ "comments" \in conv[c].ops
           => /\ conv[c].tiffsave = "None"
              /\ conv[c].ok
              /\ conv[c].strip = 1 .. (MainImd(conv[c].source).n_planes - 1)
              /\ 0 \notin conv[c].strip
              /\ conv[c].pc = "done"
              /\ conv[c].outcome = Return(TRUE)
        /\ (conv[c].pc = "done" /\ conv[c].outcome = Return(TRUE))
           => "comments" \in conv[c].ops

C12_Witness ==
    \E c \in Convertors :
        /\ conv[c].pc = "done"
        /\ conv[c].fixup = "error"
        /\ conv[c].strip = {1}
        /\ conv[c].outcome = Return(TRUE)

-----------------------------------------------------------------------------
\* Properties of need_pyramid and conversion_format

\* the re-tile step of c has written its output
Retiled(c) ==
    /\ conv[c].tiffsave = "None"
    /\ fs[conv[c].dest].kind = "tiled"

\* C13: the output is written as a pyramid if and only if both the width and
\* the height of the source image are strictly greater than 256: not for
\* 100x100, 164x156, 4096x200, 256x4096, and for 672x512 and 4096x3072.
C13_PyramidIffBothExceedTile ==
    \A c \in Convertors :
        Retiled(c)
        => LET imd == MainImd(conv[c].source)
               size == <<imd.width, imd.height>>
               pyramid == fs[conv[c].dest].pyramid
           IN  /\ pyramid <=> (imd.width > 256 /\ imd.height > 256)
               /\ size \in {<<100, 100>>, <<164, 156>>, <<4096, 200>>, <<256, 4096>>}
                  => ~pyramid
               /\ size \in {<<672, 512>>, <<4096, 3072>>} => pyramid

C13_Witness ==
    \E c \in Convertors :
        /\ Retiled(c)
        /\ MainImd(conv[c].source).width = 256
        /\ MainImd(conv[c].source).height = 4096
        /\ ~fs[conv[c].dest].pyramid

\* C14: the format conversion_format reports is the pyramidal one if and
\* only if the re-tile step for the same source wrote its output with pyramid
\* and sub-IFD enabled, and the non-pyramidal one otherwise.
C14_FormatAgreesWithOutput ==
    \A c \in Convertors :
        (Retiled(c) /\ conv[c].format # "none")
        => /\ conv[c].format \in {"OmeTiffFormat", "PyrOmeTiffFormat"}
           /\ conv[c].format = "PyrOmeTiffFormat"
              <=> (fs[conv[c].dest].pyramid /\ fs[conv[c].dest].subifd)
           /\ conv[c].format = "OmeTiffFormat"
              <=> (~fs[conv[c].dest].pyramid /\ ~fs[conv[c].dest].subifd)

C14_Witness ==
    \E c \in Convertors :
        /\ Retiled(c)
        /\ conv[c].format = "OmeTiffFormat"
        /\ conv[c].pc = "done"

-----------------------------------------------------------------------------
\* Properties of the mapping

\* the outcome of the last run of a phase of f, and the document it mapped
Outcome(f, phase) == fmt[f].imd[phase]
HasRun(f, phase) == Outcome(f, phase) # NoOutcome /\ IsDoc(objCache[f])

\* the samples per pixel each channel of the document reports, a channel
\* without the field counting as the file-level value (1 when the file has
\* none)
Reported(metadata) ==
    [i \in DOMAIN metadata["Bioformats.Channels"] |->
        Get(metadata["Bioformats.Channels"][i], "SamplesPerPixel",
            Get(metadata, "Bioformats.Pixels.SamplesPerPixel", Num(1)))]

\* C15: when all the channels report the same samples per pixel,
\* parse_main_metadata returns and n_samples is that value; when some channel
\* after the first reports another value than the first, it raises the
\* inconsistent-layout error and returns nothing.
C15_UniformSamplesOrRaise ==
    \A f \in Parsers :
        HasRun(f, "parse_main_metadata")
        => LET spp == Reported(objCache[f])
               out == Outcome(f, "parse_main_metadata")
           IN  /\ (\A i, j \in DOMAIN spp : spp[i] = spp[j])
                  => /\ out.kind = "return"
                     /\ \A i \in DOMAIN spp : out.value.n_samples = spp[i]
               /\ (\E i \in DOMAIN spp : i > 1 /\ spp[i] # spp[1])
                  => out = Raise("ValueError", DifferingSamplesPerPixel)

C15_Witness ==
    \E f \in Parsers :
        /\ HasRun(f, "parse_main_metadata")
        /\ Reported(objCache[f]) = <<Num(3), Num(3), Num(1)>>
        /\ Outcome(f, "parse_main_metadata").kind = "raise"

\* the value of a physical size as a number, when it is one
IsNumeric(value) == parse_float(value) # None
SizeKeys ==
    {<<"Bioformats.Pixels.PhysicalSizeX", "Bioformats.Pixels.PhysicalSizeXUnit", "physical_size_x">>,
     <<"Bioformats.Pixels.PhysicalSizeY", "Bioformats.Pixels.PhysicalSizeYUnit", "physical_size_y">>,
     <<"Bioformats.Pixels.PhysicalSizeZ", "Bioformats.Pixels.PhysicalSizeZUnit", "physical_size_z">>,
     <<"Bioformats.Pixels.TimeIncrement", "Bioformats.Pixels.TimeIncrementUnit", "frame_rate">>}

\* C16: a physical size whose value or unit is missing, or whose value is
\* zero or negative, is mapped to None without an error; a quantity is
\* returned only for a value and a unit that are both present, the value
\* strictly positive, and is itself strictly positive.
C16_PhysicalSizeOnlyWhenPositive ==
    \A f \in Parsers :
        HasRun(f, "parse_known_metadata")
        => LET out == Outcome(f, "parse_known_metadata")
               value(k) == Get(objCache[f], k[1], None)
               unit(k) == Get(objCache[f], k[2], None)
               rejected(k) == \/ value(k) = None
                              \/ unit(k) = None
                              \/ IsNumeric(value(k)) /\ parse_float(value(k)).num <= 0
           IN  /\ (\A k \in SizeKeys : rejected(k))
                  => ~(out.kind = "raise" /\ out.exc = "UndefinedUnitError")
               /\ out.kind = "return"
                  => \A k \in SizeKeys :
                        /\ rejected(k) => out.value[k[3]] = None
                        /\ out.value[k[3]] # None
                           => /\ value(k) # None /\ unit(k) # None
                              /\ IsNumeric(value(k)) /\ parse_float(value(k)).num > 0
                              /\ out.value[k[3]].magnitude > 0

C16_Witness ==
    \E f \in Parsers :
        /\ HasRun(f, "parse_known_metadata")
        /\ Get(objCache[f], "Bioformats.Pixels.PhysicalSizeX", None) = Str("0")
        /\ Get(objCache[f], "Bioformats.Pixels.PhysicalSizeXUnit", None) = Str("micrometer")
        /\ Outcome(f, "parse_known_metadata").kind = "return"
        /\ Outcome(f, "parse_known_metadata").value.physical_size_x = None

SlotOf(associated) ==
    CASE associated = "Macro" -> "associated_macro"
      [] associated = "Thumb" -> "associated_thumb"
      [] associated = "Label" -> "associated_label"

\* C17: parse_known_metadata populates an associated image if and only if its
\* namespaced key is in the response, and a response without that key causes
\* no error and leaves the image empty, whatever its other keys.
C17_AssociatedIffNamespacedKey ==
    \A f \in Parsers :
        HasRun(f, "parse_known_metadata")
        => LET out == Outcome(f, "parse_known_metadata")
           IN  \A a \in {"Macro", "Thumb", "Label"} :
                 IF SeriesKey(a) \in DOMAIN objCache[f]
                 THEN out.kind = "return" => out.value[SlotOf(a)] # EmptyAssociated
                 ELSE /\ out # Raise("KeyError", Str(SeriesKey(a)))
                      /\ out.kind = "return" => out.value[SlotOf(a)] = EmptyAssociated

-----------------------------------------------------------------------------
\* Properties of the operations

\* C18: every `properties` call, raw or not, has the 1 s connect timeout and
\* the configured metadata timeout; every `convert` call has the 1 s connect
\* timeout and the configured conversion timeout.
C18_TimeoutsFollowConfiguration ==
    \A p \in Procs :
        /\ call[p].message.action = "properties"
           => /\ call[p].request_timeout = 1000
              /\ call[p].response_timeout = settings.bioformats_metadata_timeout
        /\ call[p].message.action = "convert"
           => /\ call[p].request_timeout = 1000
              /\ call[p].response_timeout = settings.bioformats_conversion_timeout

\* a step of the raw-metadata phase of f, and a step of the conversion of c
RawStep(f) ==
    \/ fmt[f].pc = "idle" /\ fmt'[f].pc = "raw"
    \/ fmt[f].pc = "raw" /\ <<fmt'[f], call'[f], conn'[f]>> # <<fmt[f], call[f], conn[f]>>
ConvertStep(c) ==
    \/ conv'[c] # conv[c]
    \/ Converting(c) /\ <<call'[c], conn'[c]>> # <<call[c], conn[c]>>

\* C20: no step of parse_raw_metadata or of convert changes a cache entry;
\* a raw-metadata phase always starts a remote call of its own, with raw
\* properties asked for, and takes its result from that call; an entry is
\* written only when a `properties` call without raw properties has returned,
\* or when the format's cache takes the entry of the shared one.
C20_CacheWrittenOnlyByProperties ==
    [][ /\ \A f \in Parsers :
              RawStep(f) => /\ UNCHANGED <<objCache, dataCache>>
                            /\ fmt'[f].hits = fmt[f].hits
        /\ \A c \in Convertors :
              ConvertStep(c) => UNCHANGED <<objCache, dataCache, fmt>>
        /\ \A f \in Parsers :
              (fmt[f].pc = "idle" /\ fmt'[f].pc = "raw")
              => /\ call'[f].pc = "connect"
                 /\ call'[f].message = PropertiesMessage(fmt[f].path, TRUE)
        /\ \A f \in Parsers :
              (fmt[f].pc = "raw" /\ fmt'[f].pc = "idle")
              => /\ call[f].pc = "done"
                 /\ call[f].message.includeRawProperties
        /\ <<objCache, dataCache>>' # <<objCache, dataCache>>
           => \E f \in Parsers :
                 \/ /\ fmt[f].pc = "lookup"
                    /\ call[f].message = PropertiesMessage(Resolve(fmt[f].path), FALSE)
                    /\ call[f].outcome.kind = "return"
                 \/ /\ fmt[f].pc = "idle" /\ fmt'[f].hits = fmt[f].hits + 1
                    /\ objCache'[f] = dataCache[Resolve(fmt[f].path)]
                    /\ dataCache' = dataCache
      ]_vars

\* a raw-metadata call is on its way while the caches hold the entry of the
\* file, and a conversion has been done
C20_Witness ==
    \E f \in Parsers :
        /\ fmt[f].pc = "raw"
        /\ call[f].pc = "poll"
        /\ call[f].message.includeRawProperties
        /\ objCache[f] # NoDoc
        /\ dataCache[Resolve(fmt[f].path)] # NoDoc
        /\ \E c \in Convertors : conv[c].pc = "done" /\ conv[c].ok

-----------------------------------------------------------------------------
\* Properties of the order of the steps

\* the local steps of convert that c has started, and the step it is in
LocalSteps(c) == conv[c].ops
InLocalStep(c) == conv[c].pc \in {"open", "save", "unlink", "fixup"}

\* C21: within one convert the steps follow one another: the re-tile (open,
\* write) starts only when the remote call has ended with a response that
\* has a `file` key, the deletion only when the re-tile call has returned,
\* and the comment fix-up only after the deletion.
C21_StepsStrictlySequential ==
    \A c \in Convertors :
        /\ (InLocalStep(c) \/ LocalSteps(c) # {})
           => /\ HasKey(conv[c].result, "file")
              /\ call[c].pc = "idle"
        /\ conv[c].pc = "ask" => LocalSteps(c) = {}
        /\ "write" \in LocalSteps(c) => "open" \in LocalSteps(c)
        /\ conv[c].pc = "save" => LocalSteps(c) = {"open"}
        /\ (conv[c].pc = "unlink" \/ "unlink" \in LocalSteps(c))
           => /\ "write" \in LocalSteps(c)
              /\ conv[c].tiffsave \in {"None", "true value"}
        /\ conv[c].pc = "unlink" => "unlink" \notin LocalSteps(c)
        /\ (conv[c].pc = "fixup" \/ "comments" \in LocalSteps(c))
           => "unlink" \in LocalSteps(c)
        /\ conv[c].pc = "fixup" => "comments" \notin LocalSteps(c)

C21_Witness ==
    \E c \in Convertors :
        /\ conv[c].pc = "done"
        /\ LocalSteps(c) = {"open", "write", "unlink", "comments"}
        /\ conv[c].outcome = Return(TRUE)

-----------------------------------------------------------------------------
\* Properties of the connection

\* the call of p has gone past its connect, and past its write
PastConnect(p) == call[p].pc \in {"send", "poll", "recv", "decode", "done"}
PastSend(p) == call[p].pc \in {"poll", "recv", "decode"}

\* C22: a call connects once and writes its request once, the write ended
\* before the first poll or read; after a failure it neither connects nor
\* writes again; what it reads is the one response of its connection.
C22_OneConnectionOneRequest ==
    \A p \in Procs :
        /\ call[p].connects <= 1
        /\ call[p].sends <= 1
        /\ call[p].sends <= call[p].connects
        /\ (PastConnect(p) /\ call[p].message # NoMessage) => call[p].connects = 1
        /\ PastSend(p) => call[p].sends = 1
        /\ (call[p].polls # <<>> \/ call[p].reads # <<>>)
           => call[p].sends = 1 /\ call[p].pc \notin {"connect", "send"}
        /\ call[p].failure # "none" => call[p].pc = "done"
        /\ call[p].response.text \in {NoText, conn[p].text}

\* a call that failed after it had connected, written and read
C22_Witness ==
    \E p \in Procs :
        /\ call[p].pc = "done"
        /\ call[p].failure = "ConnectionResetError"
        /\ call[p].connects = 1
        /\ call[p].sends = 1
        /\ Len(call[p].reads) >= 1

\* C23: a call that has ended, however it ended, has closed its socket; the
\* socket is open only while the call is under way.
C23_SocketClosedOnEveryExit ==
    \A p \in Procs :
        /\ (call[p].pc = "done" /\ call[p].message # NoMessage)
           => call[p].sock = "closed"
        /\ call[p].sock = "open"
           => call[p].pc \in {"connect", "send", "poll", "recv", "decode"}
        /\ call[p].outcome # NoOutcome => call[p].sock = "closed"

C23_Witness ==
    \E p \in Procs :
        /\ call[p].pc = "done"
        /\ call[p].outcome.kind = "raise"
        /\ call[p].failure \in {"ConnectionRefusedError", "InterruptedError",
                               "socket.timeout"}
        /\ call[p].sock = "closed"

-----------------------------------------------------------------------------
\* Properties of the read loop

\* C26: the first poll of a call waits the call's response timeout, every
\* later poll waits the short fixed timeout, and once a read has been made the
\* timeout of the call stays the short one.
C26_AdaptivePollTimeout ==
    \A p \in Procs :
        /\ \A i \in 1..Len(call[p].polls) :
              call[p].polls[i] = IF i = 1 THEN call[p].response_timeout
                                 ELSE ShortPollTimeout
        /\ call[p].reads # <<>> => call[p].timeout = ShortPollTimeout
        /\ Len(call[p].polls) >= 2 => call[p].timeout = ShortPollTimeout

C26_Witness ==
    \E p \in Procs :
        /\ Len(call[p].polls) >= 3
        /\ call[p].polls[1] = bioformats_conversion_timeout
        /\ call[p].polls[3] = ShortPollTimeout
        /\ Len(call[p].reads) >= 2

\* the response of p is a JSON value without an error, its length a non-zero
\* multiple of the buffer size, and all of it has reached the socket of p
ExactMultipleDelivered(p) ==
    /\ conn[p].text # NoText
    /\ conn[p].text.size % BufferSize = 0
    /\ IsDoc(conn[p].text.doc)
    /\ ~HasKey(conn[p].text.doc, "error")
    /\ conn[p].sent = conn[p].text.size

\* every read of p filled the buffer or was empty, and no poll timed out
OnlyFullReads(p) ==
    /\ call[p].reads # <<>>
    /\ \A i \in 1..Len(call[p].reads) : call[p].reads[i] \in {BufferSize, 0}
    /\ Len(call[p].polls) = Len(call[p].reads)
    /\ call[p].failure \notin {"ConnectionResetError", "InterruptedError"}

\* C27: a call that has ended after reading, in full buffers, a response
\* whose length is a non-zero multiple of the buffer size has returned the
\* whole response, and no error.
C27_ExactMultipleReturnedComplete ==
    \A p \in Procs :
        (call[p].pc = "done" /\ ExactMultipleDelivered(p) /\ OnlyFullReads(p))
        => call[p].outcome = Return(conn[p].text.doc)

\* the same, for the responses that no read cuts inside a character
C27_ExactMultipleWithoutSplitCharacter ==
    \A p \in Procs :
        (/\ call[p].pc = "done" /\ ExactMultipleDelivered(p) /\ OnlyFullReads(p)
         /\ conn[p].text.mbAt = 0)
        => /\ call[p].outcome = Return(conn[p].text.doc)
           /\ call[p].reads[Len(call[p].reads)] = 0
           /\ call[p].response.len = conn[p].text.size

\* the call of p is under way
Running(p) == call[p].pc \in {"connect", "send", "poll", "recv", "decode"}

\* C28: a call that is under way eventually ends, with a value or an error;
\* the read loop is entered again only after a read that filled the buffer.
C28_CallEventuallyEnds ==
    /\ \A p \in Clients : Running(p) ~> (call[p].pc = "done")
    /\ [](\A p \in Clients :
             (call[p].pc \in {"poll", "recv"} /\ call[p].reads # <<>>)
             => /\ ~call[p].closed
                /\ \A i \in 1..Len(call[p].reads) : call[p].reads[i] = BufferSize)

\* a call that returned after a full read and an empty read
C28_Witness ==
    \E p \in Clients :
        /\ call[p].pc = "done"
        /\ call[p].outcome.kind = "return"
        /\ Len(call[p].reads) = 2
        /\ call[p].reads[1] = BufferSize
        /\ call[p].reads[2] = 0

-----------------------------------------------------------------------------
\* Properties of what the metadata cache holds

\* a decoded `properties` response that reports no error
DecodedProperties(value) == IsDoc(value) /\ ~HasKey(value, "error")

\* C29: every entry of the two levels of the metadata cache is a decoded
\* `properties` response, so that no lookup is answered with the result of
\* a query that failed.
C29_CacheHoldsDecodedResponsesOnly ==
    /\ \A f \in Parsers : objCache[f] # NoDoc => DecodedProperties(objCache[f])
    /\ \A path \in SourcePaths :
          dataCache[path] # NoDoc => DecodedProperties(dataCache[path])
    /\ \A f \in Parsers : fmt[f].last = "hit" => DecodedProperties(objCache[f])

-----------------------------------------------------------------------------
\* Properties of the convert request

\* C25: the request of a conversion asks for the biggest series only,
\* flattened, at one resolution, with tiles of 256, not in legacy mode, and
\* its output is the intermediate path that is later opened and deleted.
C25_ConvertRequest ==
    \A c \in Convertors :
        conv[c].pc # "idle" =>
            LET m == conv[c].request
            IN  /\ m.action = "convert"
                /\ m.onlyBiggestSerie = TRUE
                /\ m.flatten = TRUE
                /\ m.nPyramidResolutions = 1
                /\ m.pyramidScaleFactor = 1
                /\ m.tileSize = 256
                /\ m.legacyMode = FALSE
                /\ m.path = conv[c].source
                /\ m.output = intermediate_path(conv[c].dest)
                /\ call[c].pc # "idle" => call[c].message = m
                /\ "open" \in conv[c].ops => conv[c].openedAt = m.output
                /\ "unlink" \in conv[c].ops => conv[c].unlinkedAt = m.output

C25_Witness ==
    \E c \in Convertors :
        /\ conv[c].pc = "done"
        /\ conv[c].request.output = conv[c].unlinkedAt
        /\ conv[c].openedAt = conv[c].unlinkedAt
        /\ {"open", "unlink"} \subseteq conv[c].ops

-----------------------------------------------------------------------------
\* Properties of the raw metadata

\* the keys of the pyramid, the planes and the channels, and the other keys
\* that carry the namespace of the bridge
StructuralKeys ==
    {"Bioformats.Pyramid", "Bioformats.Planes", "Bioformats.Channels",
     "Bioformats.Planes.0.TheZ"}
BridgeKeys == {"Bioformats.Pixels.SizeX", "Bioformats.Series.Macro"}

\* the calls of store.set made for key k
SetCalls(calls, k) == { i \in 1..Len(calls) : calls[i].key = k }

\* C24: the store of a raw response has no entry for a key of the pyramid,
\* the planes or the channels, and one entry for every other key of the
\* response, with the value of the key, in the namespace of the format when
\* the key has not the prefix of the bridge and in the key's own otherwise.
C24_RawKeysFilteredAndNamespaced ==
    \A f \in Parsers :
        fmt[f].store.kind = "return" =>
            LET raw == fmt[f].raw_metadata
                calls == fmt[f].store.value
            IN  /\ \A i \in 1..Len(calls) : calls[i].key \in DOMAIN raw
                /\ \A k \in DOMAIN raw :
                      IF k \in StructuralKeys
                      THEN SetCalls(calls, k) = {}
                      ELSE /\ Cardinality(SetCalls(calls, k)) = 1
                           /\ \A i \in SetCalls(calls, k) :
                                 /\ calls[i].value = raw[k]
                                 /\ calls[i].namespace =
                                       IF k \in BridgeKeys THEN DefaultNamespace
                                       ELSE FormatIdentifier

C24_Witness ==
    \E f \in Parsers :
        /\ fmt[f].store.kind = "return"
        /\ DOMAIN fmt[f].raw_metadata = RawKeys
        /\ Len(fmt[f].store.value) = 4

====
